---- MODULE Spec2Model ----
(***************************************************************************)
(* Model of the approval-coordination, session and invocation-serializing  *)
(* code of the Telegram Claude bot (package src/src/telegram_claude_bot).  *)
(*                                                                         *)
(* Every message handler is a coroutine on one asyncio event loop.  An     *)
(* action of this model is the code a coroutine runs between two           *)
(* suspension points (await), which the event loop runs without            *)
(* interleaving.  Handlers of different updates are separate tasks that    *)
(* interleave at their suspension points.                                  *)
(*                                                                         *)
(* Strings are sequences of tokens (a tool name, "approve_", a clock       *)
(* reading ...), so that concatenation, replace and strip are computed.    *)
(*                                                                         *)
(* The handlers call query_claude_with_permissions / query_claude_bypass   *)
(* with an extra positional `history` argument (messages.py:92,95); the    *)
(* model follows the bodies of these functions (interactive_sdk.py) as     *)
(* entered with their declared parameters.                                 *)
(***************************************************************************)
EXTENDS Integers, Sequences, FiniteSets, TLC

VARIABLES
    config,            \* config.py: BotConfig (use_cli, permission_mode, max_history_length)
    now,               \* reading of datetime.now().timestamp()
    conversations,     \* SessionManager.conversations: chat_id -> list of turns
    appended,          \* history variable: turns appended per chat since its last clear
    claude_session_dirs, \* SessionManager.claude_session_dirs: chat_id -> directory
    cleared,           \* history variable: chats cleared by /clear with the
                       \* subprocess backend, no invocation since
    stale,             \* history variable: handlers whose conversation was
                       \* cleared between the arrival of their message and
                       \* the return of their backend call (kept by the
                       \* logged commands)
    session_dirs,      \* ClaudeProcessManager.session_dirs: chat_id -> directory
    lock_locked,       \* ClaudeProcessManager.lock._locked
    lock_waiters,      \* ClaudeProcessManager.lock._waiters (FIFO of waiting tasks)
    lock_woken,        \* the future of the first waiter has been given its result
    process,           \* the subprocess of each task's send_prompt call
    pc,                \* position of each message-handler task
    chat,              \* chat_id of the update each task handles
    began_with,        \* history variable: tasks in flight when a task began
    assistant_message, \* local assistant_message of each task
    nevents,           \* number of stream messages the task's query has yielded
    request_id,        \* local request_id of query_claude_with_permissions
    waiting_on,        \* the PermissionRequest object the task's wait holds
    wait_start,        \* clock reading when the task's wait_for began
    timed_out,         \* the wait_for timer of the task has fired
    approved,          \* local `approved` and how the wait ended
    pending_requests,  \* PermissionManager.pending_requests: request id -> object
    records,           \* the PermissionRequest objects, by identity
    rendered,          \* callback_data of the buttons shown in the chat
    signal_log,        \* history variable: decisions of the calls that returned True
    expired,           \* history variable: ids removed by the timeout of a wait
    split_text,        \* utils.split_message: argument text
    max_length,        \* utils.split_message: argument max_length
    chunks,            \* utils.split_message: the list returned
    tool_input,        \* the tool input an approval prompt is rendered for
    display_input,     \* send_permission_request: local display_input
    input_preview,     \* can_use_tool_callback: local input_preview
    shown_id,          \* send_permission_request: argument request_id
    callback_data,     \* handle_permission_callback: query.data of the tapped button
    resolved           \* handle_permission_callback: the resolve it called

vars == <<config, now, conversations, appended, claude_session_dirs, cleared, stale,
          session_dirs, lock_locked,
          lock_waiters, lock_woken, process, pc, chat, began_with, assistant_message,
          nevents, request_id, waiting_on, wait_start, timed_out,
          approved, pending_requests, records, rendered, signal_log, expired,
          split_text, max_length, chunks, tool_input, display_input, input_preview,
          shown_id, callback_data, resolved>>

fn_vars == <<split_text, max_length, chunks, tool_input, display_input, input_preview,
             shown_id, callback_data, resolved>>
lock_vars == <<session_dirs, lock_locked, lock_waiters, lock_woken>>
cli_vars == <<session_dirs, lock_locked, lock_waiters, lock_woken, process>>
store_vars == <<conversations, appended, claude_session_dirs, cleared>>
task_perm_vars == <<request_id, waiting_on, wait_start, timed_out, approved>>
manager_vars == <<pending_requests, records, rendered, signal_log, expired>>
cb_vars == <<shown_id, callback_data, resolved>>

----------------------------------------------------------------------------
\* Bounds of the model

NumTasks == 2          \* message updates handled (one task each)
NumCliTasks == 3       \* message updates handled in the specification of the lock
NumChats == 2          \* distinct chat ids
MaxClock == 1          \* clock readings 0..MaxClock
MaxEvents == 2         \* stream messages one query yields at most
MaxAppends == 5        \* add_message calls in the session-store specification

\* one task per update; only in the specification of the lock do all of
\* them receive an update, elsewhere the first NumTasks of them
Tasks == 1..NumCliTasks
Handlers == 1..NumTasks
Chats == 1..NumChats

\* max_history_length (config.py:25 sets 20; the model keeps fewer turns)
MaxHistory == 4

\* Permission policies read through config.permission_mode.
PermissionModes == {"bypass", "interactive"}

\* Tool names the backend asks permission for.
Tools == {<<"Bash">>}

None == "None"

\* no PermissionRequest object (Python None where an object is expected)
NoRequest == <<>>

----------------------------------------------------------------------------
\* Strings as token sequences

Whitespace == {"\n\n", "\n", " "}

RECURSIVE LStrip(_)
LStrip(s) == IF s # <<>> /\ Head(s) \in Whitespace THEN LStrip(Tail(s)) ELSE s

RECURSIVE RStrip(_)
RStrip(s) ==
    IF s # <<>> /\ s[Len(s)] \in Whitespace
    THEN RStrip(SubSeq(s, 1, Len(s) - 1)) ELSE s

\* str.strip()
Strip(s) == RStrip(LStrip(s))

\* str.replace(tok, "")
Remove(s, tok) == SelectSeq(s, LAMBDA x : x # tok)

\* text of the update a task handles
Prompt(t) == <<"prompt", ToString(t)>>

Turn(role, content, t) == [role |-> role, content |-> content, inv |-> t]

Last(s, n) == IF Len(s) <= n THEN s ELSE SubSeq(s, Len(s) - n + 1, Len(s))

----------------------------------------------------------------------------
\* SessionManager (session.py)

\* faulty variant of the lookup: the key is always given a new empty list
get_history_Resets(convs, c) ==
    [x \in DOMAIN convs \cup {c} |-> IF x = c THEN <<>> ELSE convs[x]]

\* get_history: the store after the call (the key exists afterwards)
get_history(convs, c) == IF c \in DOMAIN convs THEN convs ELSE convs @@ (c :> <<>>)

\* faulty variant of the slice: history[:n] keeps the oldest turns
SliceLast_KeepOldest(h, n) == IF Len(h) <= n THEN h ELSE SubSeq(h, 1, n)

\* history[-n:]
SliceLast(h, n) == IF n = 0 THEN h ELSE Last(h, n)

\* faulty variant of the append: a turn of the role of the last turn takes
\* the place of that turn
add_message_Replaces(convs, c, turn, max) ==
    LET cs == get_history(convs, c)
        h == cs[c]
    IN  IF h # <<>> /\ h[Len(h)].role = turn.role
        THEN [cs EXCEPT ![c] = SubSeq(h, 1, Len(h) - 1) \o <<turn>>]
        ELSE [cs EXCEPT ![c] = Last(Append(h, turn), max)]

\* faulty variant of the trim: it starts when the cap is reached and keeps
\* one turn less
add_message_TrimsEarly(convs, c, turn, max) ==
    LET cs == get_history(convs, c)
        history == Append(cs[c], turn)
    IN  IF Len(history) >= max
        THEN [cs EXCEPT ![c] = Last(history, max - 1)]
        ELSE [cs EXCEPT ![c] = history]

\* add_message: append, then keep the last max_history_length turns
add_message(convs, c, turn, max) ==
    LET cs == get_history(convs, c)
        history == Append(cs[c], turn)
    IN  IF Len(history) > max
        THEN [cs EXCEPT ![c] = SliceLast(history, max)]
        ELSE [cs EXCEPT ![c] = history]

\* faulty variant of the clear: the whole store is emptied
clear_history_All(convs, c) == [x \in DOMAIN convs \cup {c} |-> <<>>]

\* clear_history
clear_history(convs, c) == [x \in DOMAIN convs \cup {c} |-> IF x = c THEN <<>> ELSE convs[x]]

\* clear_session_dir
clear_session_dir(dirs, c) == [x \in DOMAIN dirs \ {c} |-> dirs[x]]

\* faulty variant of the pair: it is put in front of the turns of the history
AppendPair_Prepends(convs, c, t, text, reply, max) ==
    LET cs == get_history(convs, c)
    IN  [cs EXCEPT ![c] = <<Turn("user", text, t), Turn("assistant", reply, t)>> \o @]

\* faulty variant of the pair: the user turn is not added
AppendPair_AssistantOnly(convs, c, t, text, reply, max) ==
    add_message(convs, c, Turn("assistant", reply, t), max)

\* faulty variant of the pair: the assistant turn is not added
AppendPair_UserOnly(convs, c, t, text, reply, max) ==
    add_message(convs, c, Turn("user", text, t), max)

\* faulty variant of the pair: the assistant turn is added before the user turn
AppendPair_Swapped(convs, c, t, text, reply, max) ==
    add_message(add_message(convs, c, Turn("assistant", reply, t), max),
                c, Turn("user", text, t), max)

\* the two add_message calls of a handler (messages.py:100-101)
AppendPair(convs, c, t, text, reply, max) ==
    add_message(add_message(convs, c, Turn("user", text, t), max),
                c, Turn("assistant", reply, t), max)

\* the history variable kept along with the store
LogPair(log, c, t, text, reply) ==
    [log EXCEPT ![c] = @ \o <<Turn("user", text, t), Turn("assistant", reply, t)>>]

----------------------------------------------------------------------------
\* ClaudeProcessManager (claude_manager.py) and its asyncio.Lock

\* faulty variant of the selection: every backend goes through send_prompt
UsesCli_Always(cfg) == TRUE

\* backend selection of the handlers: `if config.use_cli`
UsesCli(cfg) == cfg.use_cli

\* faulty variant of the lock: a newcomer takes the free lock ahead of the
\* waiters
CanAcquire_Barging(locked, waiters) == ~locked

\* faulty variant of the lock: acquire never waits
CanAcquire_Unlocked(locked, waiters) == TRUE

\* Lock.acquire takes the lock without suspending
CanAcquire(locked, waiters) == ~locked /\ waiters = <<>>

\* faulty variant of the path: the chat id is left out of the name
SessionDir_Shared(c) == <<"claude_telegram_chat_">>

\* os.path.join(tempfile.gettempdir(), f'claude_telegram_chat_{chat_id}')
SessionDir(c) == <<"claude_telegram_chat_", ToString(c)>>

\* _get_session_dir: the tracking dict after the call
get_session_dir(dirs, c) == IF c \in DOMAIN dirs THEN dirs ELSE dirs @@ (c :> SessionDir(c))

\* clear_chat_session: the tracking dict after the call; removed tells
\* whether shutil.rmtree went through or raised (the exception is logged)
clear_chat_session(dirs, c, removed) == [x \in DOMAIN dirs \ {c} |-> dirs[x]]

\* positions inside the subprocess phase of send_prompt
SubprocessPhase == {"spawning", "communicating", "killing"}

\* the fixed texts send_prompt returns (ERROR_MESSAGES and the prefixes of
\* the f-strings)
CliResult(outcome) ==
    CASE outcome = "no_response" -> <<"no_response">>
      [] outcome = "cli_error" -> <<"cli_error">>
      [] outcome = "cli_not_found" -> <<"cli_not_found">>
      [] outcome = "error" -> <<"error", "exception">>
      [] outcome = "timeout" -> <<"timeout">>

\* no subprocess: the local `process` of send_prompt outside its lifetime
NoProcess == [state |-> "none", cwd |-> <<>>, stdout |-> <<>>, stderr |-> <<>>]

\* the process create_subprocess_exec returns, running in directory cwd
NewProcess(cwd) == [state |-> "running", cwd |-> cwd, stdout |-> <<>>, stderr |-> <<>>]

\* what the executable writes to a pipe
Output(stream) ==
    IF stream = "stdout" THEN <<"response", " ">> ELSE <<"stderr", " ">>

\* exit codes of the executable
ReturnCodes == {"0", "1"}

\* faulty variant of the result: the error stream is left out
ExitResult_DropsStderr(returncode, proc) ==
    IF returncode # "0"
    THEN CliResult("cli_error")
    ELSE IF Strip(proc.stdout) # <<>> THEN Strip(proc.stdout)
         ELSE CliResult("no_response")

\* result of send_prompt when communicate() returns (claude_manager.py:108-114)
ExitResult(returncode, proc) ==
    IF returncode # "0"
    THEN CliResult("cli_error") \o Strip(proc.stderr)
    ELSE IF Strip(proc.stdout) # <<>> THEN Strip(proc.stdout)
         ELSE CliResult("no_response")

\* faulty variant of the timeout result: the output read so far is returned
TimeoutResult_WithPartial(proc) == proc.stdout \o CliResult("timeout")

\* result of send_prompt when communicate() times out (claude_manager.py:102-106)
TimeoutResult(proc) == CliResult("timeout")

----------------------------------------------------------------------------
\* PermissionManager (permission_manager.py)

\* f"{tool_name}_{datetime.now().timestamp()}"
MakeRequestId(tool_name, ts) == tool_name \o <<"_", ToString(ts)>>

NewRequest(tool_name, ts) ==
    [tool_name |-> tool_name, timestamp |-> ts, message_id |-> 0,
     approved |-> None, event |-> FALSE]

\* faulty variant of the signal: an id that is not pending is accepted
Decide_UnknownAccepted(recs, pend, id, val) ==
    IF id \notin DOMAIN pend
    THEN [ret |-> TRUE, records |-> recs]
    ELSE [ret |-> TRUE,
          records |-> [recs EXCEPT ![pend[id]].approved = val,
                                   ![pend[id]].event = TRUE]]

\* approve_request / deny_request with decision val: return value and objects
Decide(recs, pend, id, val) ==
    IF id \notin DOMAIN pend
    THEN [ret |-> FALSE, records |-> recs]
    ELSE [ret |-> TRUE,
          records |-> [recs EXCEPT ![pend[id]].approved = val,
                                   ![pend[id]].event = TRUE]]

approve_request(recs, pend, id) == Decide(recs, pend, id, "True")
deny_request(recs, pend, id) == Decide(recs, pend, id, "False")

\* create_request: pending_requests[request_id] = request
create_request(pend, id, obj) ==
    [x \in DOMAIN pend \cup {id} |-> IF x = id THEN obj ELSE pend[x]]

\* get_request: the object under the id, or None
get_request(pend, id) == IF id \in DOMAIN pend THEN pend[id] ELSE NoRequest

\* pending_requests.pop(id, None) and cleanup_request
cleanup_request(pend, id) == [x \in DOMAIN pend \ {id} |-> pend[x]]

\* faulty variant of the lookup: the request is taken out of the dict
GetRequest_Pops(recs, pend, id) ==
    [ret |-> get_request(pend, id), records |-> recs,
     pending |-> cleanup_request(pend, id)]

\* a call of get_request: the value returned, and the objects and the dict
\* after the call (`return self.pending_requests.get(request_id)`)
GetRequest(recs, pend, id) ==
    [ret |-> get_request(pend, id), records |-> recs, pending |-> pend]

\* set_message_id
set_message_id(recs, pend, id, mid) ==
    IF id \in DOMAIN pend THEN [recs EXCEPT ![pend[id]].message_id = mid] ELSE recs

\* faulty variant of the wait: the timeout branch returns the recorded decision
WaitReturn_IgnoringTimeout(timedOut, rec) == rec.approved = "True"

\* value wait_for_approval returns when its wait ends
WaitReturn(timedOut, rec) == IF timedOut THEN FALSE ELSE rec.approved = "True"

\* the 300 s timeout of wait_for has elapsed: the clock has advanced
TimerDue(start, clock) == clock > start

\* callback_data of the two buttons of a prompt (permissions.py:49-50)
CallbackData(intent, id) == <<intent>> \o id

\* request id handle_permission_callback recovers (permissions.py:80,95)
ParseCallback(data) ==
    IF Head(data) = "approve_" THEN Remove(data, "approve_")
    ELSE IF Head(data) = "deny_" THEN Remove(data, "deny_")
    ELSE <<>>

\* handle_permission_callback has not been called
NoResolve == [intent |-> "unset", request_id |-> <<>>]

\* the call handle_permission_callback makes for the callback data:
\* approve_request or deny_request, and the request id it passes
Resolve(data) ==
    [intent |-> IF Head(data) = "approve_" THEN "approve_"
                ELSE IF Head(data) = "deny_" THEN "deny_" ELSE "none",
     request_id |-> ParseCallback(data)]

\* ids create_request can produce within the bounds
RequestIds == {MakeRequestId(tool, ts) : tool \in Tools, ts \in 0..MaxClock}

DenialNotice(tool_name) == <<"\n\n", "denied">> \o tool_name

NoWait == [ret |-> FALSE, how |-> "none"]

\* PermissionRequest objects that are still referenced: by pending_requests
\* or by the local `request` of a suspended wait_for_approval
Referenced(pend, waits) ==
    {pend[id] : id \in DOMAIN pend} \cup (waits \ {NoRequest})

\* the objects (or their history) that remain after garbage collection
Collect(objs, pend, waits) ==
    [o \in DOMAIN objs \cap Referenced(pend, waits) |-> objs[o]]

----------------------------------------------------------------------------
\* Message chunking (utils.py, split_message); a text is a sequence of
\* characters

\* the value of a local that has not been assigned
Unset == <<"unset">>

Min(a, b) == IF a <= b THEN a ELSE b

\* index of the first "\n" of s, 0 if there is none
FirstBreak(s) ==
    LET I == {i \in 1..Len(s) : s[i] = "\n"}
    IN  IF I = {} THEN 0 ELSE CHOOSE i \in I : \A j \in I : i <= j

\* text.split('\n')
RECURSIVE SplitLines(_)
SplitLines(s) ==
    LET k == FirstBreak(s)
    IN  IF k = 0 THEN <<s>>
        ELSE <<SubSeq(s, 1, k - 1)>> \o SplitLines(SubSeq(s, k + 1, Len(s)))

\* [line[i:i + max] for i in range(0, len(line), max)], i counted from 1
RECURSIVE CharChunks(_, _, _)
CharChunks(line, max, i) ==
    IF i > Len(line) THEN <<>>
    ELSE <<SubSeq(line, i, Min(i + max - 1, Len(line)))>> \o
         CharChunks(line, max, i + max)

\* if current_chunk: chunks.append(current_chunk.strip())
AppendChunk(chs, current_chunk) ==
    IF current_chunk # <<>> THEN Append(chs, Strip(current_chunk)) ELSE chs

\* the loop over the lines (utils.py:35-51) and the final append (53-54)
RECURSIVE SplitLoop(_, _, _, _, _)
SplitLoop(lines, i, max, chs, current_chunk) ==
    IF i > Len(lines) THEN AppendChunk(chs, current_chunk)
    ELSE LET line == lines[i] IN
         IF Len(line) > max
         THEN SplitLoop(lines, i + 1, max,
                        AppendChunk(chs, current_chunk) \o CharChunks(line, max, 1),
                        <<>>)
         ELSE IF Len(current_chunk) + Len(line) + 1 > max
         THEN SplitLoop(lines, i + 1, max, AppendChunk(chs, current_chunk),
                        line \o <<"\n">>)
         ELSE SplitLoop(lines, i + 1, max, chs, current_chunk \o line \o <<"\n">>)

split_message(txt, max) ==
    IF Len(txt) <= max THEN <<txt>>
    ELSE SplitLoop(SplitLines(txt), 1, max, <<>>, <<>>)

----------------------------------------------------------------------------
\* Display of a tool input in an approval prompt

\* the caps and the slice the two renderers use
DisplayCap == 500
DisplayKeep == 497
PreviewCap == 400

\* "..."
Marker == <<".", ".", ".">>

\* send_permission_request (handlers/permissions.py:35-38)
DisplayInput(input) ==
    IF Len(input) > DisplayCap
    THEN SubSeq(input, 1, Min(DisplayKeep, Len(input))) \o Marker
    ELSE input

\* can_use_tool_callback (bot.py:503-505)
InputPreview(input) ==
    IF Len(input) > PreviewCap
    THEN SubSeq(input, 1, Min(PreviewCap, Len(input))) \o Marker
    ELSE SubSeq(input, 1, Min(PreviewCap, Len(input)))

\* no call of the functions above has been made
NoCalls ==
    /\ split_text = <<>>
    /\ max_length = 1
    /\ chunks = <<>>
    /\ tool_input = <<>>
    /\ display_input = Unset
    /\ input_preview = Unset
    /\ shown_id = <<>>
    /\ callback_data = Unset
    /\ resolved = NoResolve

----------------------------------------------------------------------------
\* Initial state: the module-level singletons right after construction

\* the settings the handlers read: backend, permission mode, history cap
Configs == [use_cli : BOOLEAN, permission_mode : PermissionModes,
            max_history_length : {MaxHistory}]

\* the singletons of the three managers and the handler tasks
Constructed ==
    /\ now = 0
    /\ conversations = <<>>
    /\ appended = [c \in Chats |-> <<>>]
    /\ claude_session_dirs = <<>>
    /\ cleared = {}
    /\ stale = {}
    /\ session_dirs = <<>>
    /\ lock_locked = FALSE
    /\ lock_waiters = <<>>
    /\ lock_woken = FALSE
    /\ process = [t \in Tasks |-> NoProcess]
    /\ pc = [t \in Tasks |-> "idle"]
    /\ chat = [t \in Tasks |-> 0]
    /\ began_with = [t \in Tasks |-> {}]
    /\ assistant_message = [t \in Tasks |-> <<>>]
    /\ nevents = [t \in Tasks |-> 0]
    /\ request_id = [t \in Tasks |-> <<>>]
    /\ waiting_on = [t \in Tasks |-> NoRequest]
    /\ wait_start = [t \in Tasks |-> 0]
    /\ timed_out = [t \in Tasks |-> FALSE]
    /\ approved = [t \in Tasks |-> NoWait]
    /\ pending_requests = <<>>
    /\ records = <<>>
    /\ rendered = {}
    /\ signal_log = <<>>
    /\ expired = {}

Init ==
    /\ config \in Configs
    /\ Constructed
    /\ NoCalls

InFlight(t) == pc[t] \notin {"idle", "done"}

\* chats that an update has been received for
UsedChats == {chat[t] : t \in {u \in Tasks : pc[u] # "idle"}}

----------------------------------------------------------------------------
\* Message handler (handlers/messages.py, _handle_text_message)

\* An update arrives and its handler starts: await send_chat_action.
\* Updates are numbered in arrival order and chats in order of first use.
HandleMessage(t, c) ==
    /\ pc[t] = "idle"
    /\ \A u \in Tasks : u < t => pc[u] # "idle"
    /\ c <= Cardinality(UsedChats) + 1
    /\ pc' = [pc EXCEPT ![t] = "typing"]
    /\ chat' = [chat EXCEPT ![t] = c]
    /\ began_with' = [began_with EXCEPT ![t] = {u \in Tasks : InFlight(u)}]
    /\ UNCHANGED <<fn_vars, stale, config, now, store_vars, cli_vars, assistant_message,
                   nevents, task_perm_vars, manager_vars>>

\* faulty variant of the release: the lock stays held
ReleaseLock_Skipped == UNCHANGED <<lock_locked, lock_woken, lock_waiters>>

\* release of the lock at the end of `async with self.lock`
ReleaseLock ==
    /\ lock_locked' = FALSE
    /\ lock_woken' = (lock_waiters # <<>>)
    /\ UNCHANGED lock_waiters

\* messages.py:97-101 with the result of the backend call
Finish(t, result) ==
    LET reply == Strip(result) IN
    /\ conversations' = AppendPair(conversations, chat[t], t, Prompt(t), reply,
                                   config.max_history_length)
    /\ appended' = LogPair(appended, chat[t], t, Prompt(t), reply)
    /\ assistant_message' = [assistant_message EXCEPT ![t] = reply]
    /\ pc' = [pc EXCEPT ![t] = "replying"]
    /\ cleared' = cleared \ {chat[t]}
    /\ UNCHANGED claude_session_dirs

\* get_history, then the backend call up to its first suspension
Dispatch(t) ==
    /\ pc[t] = "typing"
    /\ conversations' = get_history(conversations, chat[t])
    /\ IF UsesCli(config)
       THEN IF CanAcquire(lock_locked, lock_waiters)
            THEN /\ lock_locked' = TRUE
                 /\ session_dirs' = get_session_dir(session_dirs, chat[t])
                 /\ cleared' = cleared \ {chat[t]}
                 /\ pc' = [pc EXCEPT ![t] = "spawning"]
                 /\ UNCHANGED <<lock_waiters, lock_woken, process>>
            ELSE /\ lock_waiters' = Append(lock_waiters, t)
                 /\ pc' = [pc EXCEPT ![t] = "lock_wait"]
                 /\ UNCHANGED <<lock_locked, lock_woken, session_dirs, process,
                                cleared>>
       ELSE /\ pc' = [pc EXCEPT ![t] = "streaming"]
            /\ UNCHANGED <<cli_vars, cleared>>
    /\ UNCHANGED <<fn_vars, stale, config, now, appended, claude_session_dirs, chat, began_with,
                   assistant_message, nevents, task_perm_vars, manager_vars>>

\* Lock.acquire resumes: the waiter leaves the queue and holds the lock
LockAcquired(t) ==
    /\ pc[t] = "lock_wait"
    /\ lock_waiters # <<>> /\ Head(lock_waiters) = t
    /\ lock_woken
    /\ lock_waiters' = Tail(lock_waiters)
    /\ lock_woken' = FALSE
    /\ lock_locked' = TRUE
    /\ session_dirs' = get_session_dir(session_dirs, chat[t])
    /\ cleared' = cleared \ {chat[t]}
    /\ pc' = [pc EXCEPT ![t] = "spawning"]
    /\ UNCHANGED <<fn_vars, stale, config, now, conversations, appended, claude_session_dirs,
                   process, chat, began_with,
                   assistant_message, nevents, task_perm_vars, manager_vars>>

\* send_prompt gets the lock and os.makedirs raises in _get_session_dir:
\* `except Exception` of send_prompt returns the error text, the lock is
\* released and the handler goes on with that result
MakedirsFails(t) ==
    /\ UsesCli(config)
    /\ chat[t] \notin DOMAIN session_dirs
    /\ \/ /\ pc[t] = "typing"
          /\ CanAcquire(lock_locked, lock_waiters)
          /\ UNCHANGED <<lock_locked, lock_waiters, lock_woken>>
       \/ /\ pc[t] = "lock_wait"
          /\ lock_waiters # <<>> /\ Head(lock_waiters) = t
          /\ lock_woken
          /\ lock_waiters' = Tail(lock_waiters)
          /\ lock_woken' = (Tail(lock_waiters) # <<>>)
          /\ lock_locked' = FALSE
    /\ Finish(t, CliResult("error"))
    /\ UNCHANGED <<fn_vars, stale, config, now, session_dirs, process, chat, began_with,
                   nevents, task_perm_vars, manager_vars>>

\* create_subprocess_exec returns the process: await communicate()
SpawnOk(t) ==
    /\ pc[t] = "spawning"
    /\ pc' = [pc EXCEPT ![t] = "communicating"]
    /\ process' = [process EXCEPT ![t] = NewProcess(session_dirs[chat[t]])]
    /\ UNCHANGED <<fn_vars, stale, config, now, store_vars, lock_vars, chat, began_with,
                   assistant_message, nevents, task_perm_vars, manager_vars>>

\* the running process writes to one of its pipes
ProcessWrites(t, stream) ==
    /\ pc[t] = "communicating"
    /\ process[t][stream] = <<>>
    /\ process' = [process EXCEPT ![t][stream] = Output(stream)]
    /\ UNCHANGED <<fn_vars, stale, config, now, store_vars, lock_vars, pc, chat, began_with,
                   assistant_message, nevents, task_perm_vars, manager_vars>>

\* create_subprocess_exec raises FileNotFoundError or another exception
SpawnFails(t, outcome) ==
    /\ pc[t] = "spawning"
    /\ outcome \in {"cli_not_found", "error"}
    /\ ReleaseLock
    /\ Finish(t, CliResult(outcome))
    /\ UNCHANGED process
    /\ UNCHANGED <<fn_vars, stale, config, now, session_dirs, chat, began_with,
                   nevents, task_perm_vars, manager_vars>>

\* the process exits within the timeout: communicate() returns its output
ProcessExits(t, returncode) ==
    /\ pc[t] = "communicating"
    /\ returncode \in ReturnCodes
    /\ ReleaseLock
    /\ Finish(t, ExitResult(returncode, process[t]))
    /\ process' = [process EXCEPT ![t] = NoProcess]
    /\ UNCHANGED <<fn_vars, stale, config, now, session_dirs, chat, began_with,
                   nevents, task_perm_vars, manager_vars>>

\* wait_for raises TimeoutError: process.kill(), await process.wait()
CommunicateTimeout(t) ==
    /\ pc[t] = "communicating"
    /\ pc' = [pc EXCEPT ![t] = "killing"]
    /\ process' = [process EXCEPT ![t].state = "killing"]
    /\ UNCHANGED <<fn_vars, stale, config, now, store_vars, lock_vars, chat, began_with,
                   assistant_message, nevents, task_perm_vars, manager_vars>>

\* process.wait() returns: the timeout message is the result
Killed(t) ==
    /\ pc[t] = "killing"
    /\ ReleaseLock
    /\ Finish(t, TimeoutResult(process[t]))
    /\ process' = [process EXCEPT ![t] = NoProcess]
    /\ UNCHANGED <<fn_vars, stale, config, now, session_dirs, chat, began_with,
                   nevents, task_perm_vars, manager_vars>>

\* faulty variant of the handler: the exception of the backend call leaves it
AfterRaise_Escapes == "escaped"

\* position of the handler after its backend call raised: `except Exception`
\* replies with the text of the error (messages.py:123-128)
AfterRaise == "reporting"

\* the replies to the user, or the report of the error, have been sent: the
\* handler returns and its locals are gone
Replied(t) ==
    /\ pc[t] \in {"replying", "reporting"}
    /\ pc' = [pc EXCEPT ![t] = "done"]
    /\ approved' = [approved EXCEPT ![t] = NoWait]
    /\ assistant_message' = [assistant_message EXCEPT ![t] = <<>>]
    /\ nevents' = [nevents EXCEPT ![t] = 0]
    /\ stale' = stale \ {t}
    /\ UNCHANGED <<fn_vars, config, now, store_vars, cli_vars, chat, began_with,
                   request_id, waiting_on, wait_start, timed_out, manager_vars>>

----------------------------------------------------------------------------
\* Streaming backend (interactive_sdk.py)

\* faulty variant of the mode test: every tool_use asks for approval
Interactive_Always == TRUE

\* `if tool_name and permission_manager` under the interactive mode the
\* handler selected (messages.py:90, interactive_sdk.py:81)
Interactive == config.permission_mode = "interactive"

\* the query yields a text/result message
StreamText(t) ==
    /\ pc[t] = "streaming"
    /\ nevents[t] < MaxEvents
    /\ nevents' = [nevents EXCEPT ![t] = @ + 1]
    /\ assistant_message' = [assistant_message EXCEPT ![t] = @ \o <<"text">>]
    /\ UNCHANGED <<fn_vars, stale, config, now, store_vars, cli_vars, pc, chat, began_with,
                   task_perm_vars, manager_vars>>

\* the query yields a tool_use message; in interactive mode: create_request,
\* then await send_permission_request
StreamToolUse(t, tool_name) ==
    /\ pc[t] = "streaming"
    /\ nevents[t] < MaxEvents
    /\ nevents' = [nevents EXCEPT ![t] = @ + 1]
    /\ IF Interactive
       THEN LET id == MakeRequestId(tool_name, now)
                obj == <<t, nevents[t] + 1>>
                pend == create_request(pending_requests, id, obj)
                waits == {waiting_on[u] : u \in Tasks}
            IN  /\ records' = Collect(records @@ (obj :> NewRequest(tool_name, now)),
                                      pend, waits)
                /\ pending_requests' = pend
                /\ signal_log' = Collect(signal_log @@ (obj :> <<>>), pend, waits)
                /\ request_id' = [request_id EXCEPT ![t] = id]
                /\ pc' = [pc EXCEPT ![t] = "prompting"]
                /\ UNCHANGED <<rendered, expired, waiting_on, wait_start,
                               timed_out, approved>>
       ELSE UNCHANGED <<pc, task_perm_vars, manager_vars>>
    /\ UNCHANGED <<fn_vars, stale, config, now, store_vars, cli_vars, chat, began_with,
                   assistant_message>>

\* the stream ends: the query function returns
StreamEnds(t) ==
    /\ pc[t] = "streaming"
    /\ Finish(t, assistant_message[t])
    /\ UNCHANGED <<fn_vars, stale, config, now, cli_vars, chat, began_with, nevents,
                   task_perm_vars, manager_vars>>

\* the query raises: re-raised, caught by the handler, nothing is appended
StreamRaises(t) ==
    /\ pc[t] = "streaming"
    /\ pc' = [pc EXCEPT ![t] = AfterRaise]
    /\ UNCHANGED <<fn_vars, stale, config, now, store_vars, cli_vars, chat, began_with,
                   assistant_message, nevents, task_perm_vars, manager_vars>>

\* local tool_name of the query function: the prefix create_request put
\* in front of "_" and the clock reading
ToolOf(id) == SubSeq(id, 1, Len(id) - 2)

\* the locals of wait_for_approval are gone once it has returned
WaitOver(t) ==
    /\ waiting_on' = [waiting_on EXCEPT ![t] = NoRequest]
    /\ wait_start' = [wait_start EXCEPT ![t] = 0]
    /\ timed_out' = [timed_out EXCEPT ![t] = FALSE]

\* cleanup_request by the caller of wait_for_approval; objects nobody
\* references any more are dropped
Cleanup(t, pend) ==
    LET pend2 == cleanup_request(pend, request_id[t])
        waits == {waiting_on[u] : u \in Tasks \ {t}}
    IN  /\ pending_requests' = pend2
        /\ records' = Collect(records, pend2, waits)
        /\ signal_log' = Collect(signal_log, pend2, waits)

\* faulty variant of the branch: the stream goes on whatever the wait returned
ContinuesAfter_Always(ret) == TRUE

\* `if approved:` (interactive_sdk.py:97): the loop goes on to the next message
ContinuesAfter(ret) == ret

\* the denied branch of query_claude_with_permissions (interactive_sdk.py:100-105)
\* followed by the return into the handler
DeniedBranch(t, pend) ==
    /\ Cleanup(t, pend)
    /\ Finish(t, assistant_message[t] \o DenialNotice(ToolOf(request_id[t])))
    /\ request_id' = [request_id EXCEPT ![t] = <<>>]

\* send_permission_request returns the message id: set_message_id, then
\* wait_for_approval up to its suspension
PromptSent(t) ==
    /\ pc[t] = "prompting"
    /\ rendered' = rendered \cup {request_id[t]}
    /\ IF request_id[t] \notin DOMAIN pending_requests
       THEN /\ approved' = [approved EXCEPT ![t] =
                   [ret |-> FALSE, how |-> "not_found"]]
            /\ DeniedBranch(t, pending_requests)
            /\ UNCHANGED <<waiting_on, wait_start, timed_out>>
       ELSE /\ records' = set_message_id(records, pending_requests, request_id[t], t)
            /\ waiting_on' = [waiting_on EXCEPT ![t] = pending_requests[request_id[t]]]
            /\ wait_start' = [wait_start EXCEPT ![t] = now]
            /\ timed_out' = [timed_out EXCEPT ![t] = FALSE]
            /\ pc' = [pc EXCEPT ![t] = "waiting"]
            /\ UNCHANGED <<store_vars, assistant_message, approved, request_id,
                           pending_requests, signal_log>>
    /\ UNCHANGED <<fn_vars, stale, config, now, cli_vars, chat, began_with, nevents, expired>>

\* send_permission_request raises: the exception leaves the query function
\* and the handler; the request stays in pending_requests
PromptFails(t) ==
    /\ pc[t] = "prompting"
    /\ pc' = [pc EXCEPT ![t] = AfterRaise]
    /\ request_id' = [request_id EXCEPT ![t] = <<>>]
    /\ UNCHANGED <<fn_vars, stale, config, now, store_vars, cli_vars, chat, began_with,
                   assistant_message, nevents, waiting_on, wait_start,
                   timed_out, approved, manager_vars>>

\* the timer of asyncio.wait_for fires while the event is not set
TimerFires(t) ==
    /\ pc[t] = "waiting"
    /\ ~timed_out[t]
    /\ ~records[waiting_on[t]].event
    /\ TimerDue(wait_start[t], now)
    /\ timed_out' = [timed_out EXCEPT ![t] = TRUE]
    /\ UNCHANGED <<fn_vars, stale, config, now, store_vars, cli_vars, pc, chat, began_with,
                   assistant_message, nevents, request_id, waiting_on,
                   wait_start, approved, manager_vars>>

\* the waiting task resumes: wait_for_approval returns (after the pop of the
\* timeout branch), and the caller cleans up
WaitResumes(t) ==
    /\ pc[t] = "waiting"
    /\ timed_out[t] \/ records[waiting_on[t]].event
    /\ LET ret == WaitReturn(timed_out[t], records[waiting_on[t]])
           pend == IF timed_out[t]
                   THEN cleanup_request(pending_requests, request_id[t])
                   ELSE pending_requests
       IN  /\ approved' = [approved EXCEPT ![t] =
                   [ret |-> ret, how |-> IF timed_out[t] THEN "timeout" ELSE "event"]]
           /\ expired' = IF timed_out[t] THEN expired \cup {request_id[t]} ELSE expired
           /\ WaitOver(t)
           /\ IF ContinuesAfter(ret)
              THEN /\ Cleanup(t, pend)
                   /\ pc' = [pc EXCEPT ![t] = "streaming"]
                   /\ request_id' = [request_id EXCEPT ![t] = <<>>]
                   /\ UNCHANGED <<store_vars, assistant_message>>
              ELSE DeniedBranch(t, pend)
    /\ UNCHANGED <<fn_vars, stale, config, now, cli_vars, chat, began_with, nevents, rendered>>

----------------------------------------------------------------------------
\* Approval buttons (handlers/permissions.py, handle_permission_callback)

\* the user taps a button of a rendered prompt
PermissionCallback(intent, shown) ==
    /\ intent \in {"approve_", "deny_"}
    /\ shown \in rendered
    /\ LET id == ParseCallback(CallbackData(intent, shown))
           g == GetRequest(records, pending_requests, id)
           request == g.ret
           r == IF intent = "approve_"
                THEN approve_request(g.records, g.pending, id)
                ELSE deny_request(g.records, g.pending, id)
       IN  /\ pending_requests' = g.pending
           /\ IF request # NoRequest
              THEN /\ records' = r.records
                   /\ signal_log' =
                          IF r.ret /\ Len(signal_log[request]) < 2
                          THEN [signal_log EXCEPT ![request] = Append(@, intent)]
                          ELSE signal_log
              ELSE /\ records' = g.records
                   /\ UNCHANGED signal_log
    /\ UNCHANGED <<fn_vars, stale, config, now, store_vars, cli_vars, pc, chat, began_with,
                   assistant_message, nevents, task_perm_vars, rendered, expired>>

----------------------------------------------------------------------------
\* Commands (handlers/commands.py)

\* the handlers of chat c that have not come back from their backend call:
\* their prompts were submitted before a clear that runs now
Running(c) ==
    {t \in Tasks : chat[t] = c
                   /\ pc[t] \notin {"idle", "replying", "reporting", "done"}}

\* /start: clear_history (for a chat that has sent a message)
start_command(c) ==
    /\ c \in UsedChats
    /\ conversations' = clear_history(conversations, c)
    /\ appended' = [appended EXCEPT ![c] = <<>>]
    /\ UNCHANGED <<fn_vars, config, now, claude_session_dirs, cleared, cli_vars, pc, chat,
                   began_with, assistant_message, nevents, task_perm_vars,
                   manager_vars>>

StartCommand(c) == start_command(c) /\ UNCHANGED stale

\* the same step, recorded in the history variable stale
StartCommandLogged(c) == start_command(c) /\ stale' = stale \cup Running(c)

\* /clear: clear_all = clear_history, and clear_session_dir in CLI mode
clear_command(c) ==
    /\ c \in UsedChats
    /\ conversations' = clear_history(conversations, c)
    /\ appended' = [appended EXCEPT ![c] = <<>>]
    /\ claude_session_dirs' = IF config.use_cli
                              THEN clear_session_dir(claude_session_dirs, c)
                              ELSE claude_session_dirs
    /\ cleared' = IF config.use_cli THEN cleared \cup {c} ELSE cleared
    /\ UNCHANGED <<fn_vars, config, now, cli_vars, pc, chat, began_with,
                   assistant_message, nevents, task_perm_vars, manager_vars>>

ClearCommand(c) == clear_command(c) /\ UNCHANGED stale

\* the same step, recorded in the history variable stale
ClearCommandLogged(c) == clear_command(c) /\ stale' = stale \cup Running(c)

\* The clock advances.  Readings are told apart only by the requests and
\* waits that carry them, so a reading nobody carries is not skipped.
Tick ==
    /\ now < MaxClock
    /\ \/ \E o \in DOMAIN records : records[o].timestamp = now
       \/ \E t \in Tasks : pc[t] = "waiting" /\ wait_start[t] = now
    /\ now' = now + 1
    /\ UNCHANGED <<fn_vars, stale, config, store_vars, cli_vars, pc, chat, began_with,
                   assistant_message, nevents, task_perm_vars, manager_vars>>

----------------------------------------------------------------------------
Next ==
    \/ \E t \in Handlers, c \in Chats : HandleMessage(t, c)
    \/ \E t \in Handlers : Dispatch(t)
    \/ \E t \in Handlers : LockAcquired(t)
    \/ \E t \in Handlers : MakedirsFails(t)
    \/ \E t \in Handlers : SpawnOk(t)
    \/ \E t \in Handlers, o \in {"cli_not_found", "error"} : SpawnFails(t, o)
    \/ \E t \in Handlers, stream \in {"stdout", "stderr"} : ProcessWrites(t, stream)
    \/ \E t \in Handlers, rc \in ReturnCodes : ProcessExits(t, rc)
    \/ \E t \in Handlers : CommunicateTimeout(t)
    \/ \E t \in Handlers : Killed(t)
    \/ \E t \in Handlers : Replied(t)
    \/ \E t \in Handlers : StreamText(t)
    \/ \E t \in Handlers, tool \in Tools : StreamToolUse(t, tool)
    \/ \E t \in Handlers : StreamEnds(t)
    \/ \E t \in Handlers : StreamRaises(t)
    \/ \E t \in Handlers : PromptSent(t)
    \/ \E t \in Handlers : PromptFails(t)
    \/ \E t \in Handlers : TimerFires(t)
    \/ \E t \in Handlers : WaitResumes(t)
    \/ \E i \in {"approve_", "deny_"}, s \in RequestIds : PermissionCallback(i, s)
    \/ \E c \in Chats : StartCommand(c)
    \/ \E c \in Chats : ClearCommand(c)
    \/ Tick

Spec == Init /\ [][Next]_vars

----------------------------------------------------------------------------
\* The session store under arbitrary calls (session.py, tests/test_bot.py)

InitSession ==
    /\ config \in [use_cli : {FALSE}, permission_mode : {"bypass"},
                   max_history_length : 1..MaxHistory]
    /\ Constructed
    /\ NoCalls

not_store_vars == <<fn_vars, stale, config, now, claude_session_dirs, cleared, cli_vars, pc, chat, began_with,
                    assistant_message, nevents, task_perm_vars, manager_vars>>

\* get_history(chat_id)
GetHistory(c) ==
    /\ conversations' = get_history(conversations, c)
    /\ UNCHANGED <<appended, not_store_vars>>

RECURSIVE TurnsLogged(_)
TurnsLogged(n) == IF n = 0 THEN 0 ELSE Len(appended[n]) + TurnsLogged(n - 1)

\* add_message(chat_id, role, content); the content is the number of the call
AddMessage(c, role) ==
    /\ TurnsLogged(NumChats) < MaxAppends
    /\ LET turn == Turn(role, <<ToString(Len(appended[c]) + 1)>>, 0) IN
       /\ conversations' = add_message(conversations, c, turn, config.max_history_length)
       /\ appended' = [appended EXCEPT ![c] = Append(@, turn)]
    /\ UNCHANGED not_store_vars

\* clear_history(chat_id)
ClearHistory(c) ==
    /\ conversations' = clear_history(conversations, c)
    /\ appended' = [appended EXCEPT ![c] = <<>>]
    /\ UNCHANGED not_store_vars

NextSession ==
    \/ \E c \in Chats : GetHistory(c)
    \/ \E c \in Chats, role \in {"user", "assistant"} : AddMessage(c, role)
    \/ \E c \in Chats : ClearHistory(c)

SpecSession == InitSession /\ [][NextSession]_vars

----------------------------------------------------------------------------
\* The message handlers of the streaming backend and the two commands under
\* every history cap (handlers/messages.py, handlers/commands.py, session.py)

InitTrim ==
    /\ config \in [use_cli : {FALSE}, permission_mode : {"bypass"},
                   max_history_length : 1..MaxHistory]
    /\ Constructed
    /\ NoCalls

NextTrim ==
    \/ \E t \in Handlers, c \in Chats : HandleMessage(t, c)
    \/ \E t \in Handlers : Dispatch(t)
    \/ \E t \in Handlers : StreamText(t)
    \/ \E t \in Handlers, tool \in Tools : StreamToolUse(t, tool)
    \/ \E t \in Handlers : StreamEnds(t)
    \/ \E t \in Handlers : StreamRaises(t)
    \/ \E t \in Handlers : Replied(t)
    \/ \E c \in Chats : StartCommandLogged(c)
    \/ \E c \in Chats : ClearCommandLogged(c)

SpecTrim == InitTrim /\ [][NextTrim]_vars

----------------------------------------------------------------------------
\* split_message under arbitrary texts and limits (utils.py, called by
\* _send_text_chunks, handlers/messages.py:404)

MaxText == 5           \* length of the texts
MaxChunk == 3          \* max_length is 1..MaxChunk

\* letters, blanks and line breaks
Chars == {"a", " ", "\n"}

Texts == UNION {[1..n -> Chars] : n \in 0..MaxText}

\* the configuration the pure functions are called in
DefaultConfig ==
    [use_cli |-> FALSE, permission_mode |-> "bypass", max_history_length |-> MaxHistory]

program_vars == <<config, now, stale, store_vars, cli_vars, pc, chat, began_with,
                  assistant_message, nevents, task_perm_vars, manager_vars>>

InitSplit ==
    /\ config = DefaultConfig
    /\ Constructed
    /\ split_text \in Texts
    /\ max_length \in 1..MaxChunk
    /\ chunks = <<>>
    /\ tool_input = <<>>
    /\ display_input = Unset
    /\ input_preview = Unset
    /\ shown_id = <<>>
    /\ callback_data = Unset
    /\ resolved = NoResolve

\* chunks = split_message(text, max_length)
SplitMessage ==
    /\ chunks = <<>>
    /\ chunks' = split_message(split_text, max_length)
    /\ UNCHANGED <<program_vars, split_text, max_length, tool_input,
                   display_input, input_preview, cb_vars>>

NextSplit == SplitMessage

SpecSplit == InitSplit /\ [][NextSplit]_vars

----------------------------------------------------------------------------
\* The two renderers of approval prompts under tool inputs of every length
\* (handlers/permissions.py, bot.py)

MaxInput == 1000       \* length of the tool inputs

\* the tool input of length n: its i-th character is the last digit of i
ToolInput(n) == [i \in 1..n |-> ToString(i % 10)]

InitDisplay ==
    /\ config = DefaultConfig
    /\ Constructed
    /\ split_text = <<>>
    /\ max_length = 1
    /\ chunks = <<>>
    /\ tool_input \in {ToolInput(n) : n \in 0..MaxInput}
    /\ display_input = Unset
    /\ input_preview = Unset
    /\ shown_id = <<>>
    /\ callback_data = Unset
    /\ resolved = NoResolve

\* send_permission_request builds the text of its prompt
SendPermissionRequest ==
    /\ display_input = Unset
    /\ display_input' = DisplayInput(tool_input)
    /\ UNCHANGED <<program_vars, split_text, max_length, chunks, tool_input,
                   input_preview, cb_vars>>

\* can_use_tool_callback builds the text of its prompt
CanUseToolCallback ==
    /\ input_preview = Unset
    /\ input_preview' = InputPreview(tool_input)
    /\ UNCHANGED <<program_vars, split_text, max_length, chunks, tool_input,
                   display_input, cb_vars>>

NextDisplay ==
    \/ SendPermissionRequest
    \/ CanUseToolCallback

SpecDisplay == InitDisplay /\ [][NextDisplay]_vars

----------------------------------------------------------------------------
\* The buttons of an approval prompt and the handler of their taps, under
\* tool names of every shape (handlers/permissions.py, permission_manager.py)

MaxName == 2           \* number of parts of a tool name

\* parts of tool names: a plain word and the two prefixes of callback data
NameParts == {"Bash", "approve_", "deny_"}

ToolNames == UNION {[1..n -> NameParts] : n \in 1..MaxName}

\* send_permission_request is called with the id create_request returned
InitCallback ==
    /\ config = DefaultConfig
    /\ Constructed
    /\ split_text = <<>>
    /\ max_length = 1
    /\ chunks = <<>>
    /\ tool_input = <<>>
    /\ display_input = Unset
    /\ input_preview = Unset
    /\ shown_id \in {MakeRequestId(tool, ts) : tool \in ToolNames, ts \in 0..MaxClock}
    /\ callback_data = Unset
    /\ resolved = NoResolve

\* the user taps one of the two buttons: Telegram delivers its callback_data
TapButton(intent) ==
    /\ callback_data = Unset
    /\ callback_data' = CallbackData(intent, shown_id)
    /\ UNCHANGED <<program_vars, split_text, max_length, chunks, tool_input,
                   display_input, input_preview, shown_id, resolved>>

\* handle_permission_callback parses the data and calls the coordinator
HandlePermissionCallback ==
    /\ callback_data # Unset
    /\ resolved = NoResolve
    /\ resolved' = Resolve(callback_data)
    /\ UNCHANGED <<program_vars, split_text, max_length, chunks, tool_input,
                   display_input, input_preview, shown_id, callback_data>>

NextCallback ==
    \/ \E intent \in {"approve_", "deny_"} : TapButton(intent)
    \/ HandlePermissionCallback

SpecCallback == InitCallback /\ [][NextCallback]_vars

----------------------------------------------------------------------------
\* The subprocess backend under its message handlers, with fair scheduling
\* (claude_manager.py, handlers/messages.py)

\* The subprocess backend only passes permission_mode on to the executable
\* (claude_manager.py:78): one permission mode stands for both.
InitLock == Init /\ UsesCli(config) /\ config.permission_mode = "bypass"

NextLock ==
    \/ \E t \in Tasks, c \in Chats : HandleMessage(t, c)
    \/ \E t \in Tasks : Dispatch(t)
    \/ \E t \in Tasks : LockAcquired(t)
    \/ \E t \in Tasks : MakedirsFails(t)
    \/ \E t \in Tasks : SpawnOk(t)
    \/ \E t \in Tasks, o \in {"cli_not_found", "error"} : SpawnFails(t, o)
    \/ \E t \in Tasks, stream \in {"stdout", "stderr"} : ProcessWrites(t, stream)
    \/ \E t \in Tasks, rc \in ReturnCodes : ProcessExits(t, rc)
    \/ \E t \in Tasks : CommunicateTimeout(t)
    \/ \E t \in Tasks : Killed(t)
    \/ \E t \in Tasks : Replied(t)

\* The event loop runs every coroutine that is ready; create_subprocess_exec
\* returns or raises; wait_for(communicate(), timeout) ends by the exit of
\* the process or by its timeout; process.wait() returns after kill().
FairLock ==
    \A t \in Tasks :
        /\ WF_vars(Dispatch(t))
        /\ WF_vars(LockAcquired(t))
        /\ WF_vars(SpawnOk(t) \/ \E o \in {"cli_not_found", "error"} : SpawnFails(t, o))
        /\ WF_vars(CommunicateTimeout(t) \/ \E rc \in ReturnCodes : ProcessExits(t, rc))
        /\ WF_vars(Killed(t))
        /\ WF_vars(Replied(t))

SpecLock == InitLock /\ [][NextLock]_vars /\ FairLock

----------------------------------------------------------------------------
\* The invocations of both backends under fair scheduling, where time goes
\* on after the last clock reading of the model (handlers/messages.py,
\* claude_manager.py, interactive_sdk.py, permission_manager.py)

\* the timer of asyncio.wait_for fires for a wait that began at the last
\* clock reading the model tells apart
TimerFiresAtHorizon(t) ==
    /\ pc[t] = "waiting"
    /\ ~timed_out[t]
    /\ ~records[waiting_on[t]].event
    /\ now = MaxClock /\ wait_start[t] = MaxClock
    /\ timed_out' = [timed_out EXCEPT ![t] = TRUE]
    /\ UNCHANGED <<fn_vars, stale, config, now, store_vars, cli_vars, pc, chat, began_with,
                   assistant_message, nevents, request_id, waiting_on,
                   wait_start, approved, manager_vars>>

NextLive ==
    \/ \E t \in Handlers, c \in Chats : HandleMessage(t, c)
    \/ \E t \in Handlers : Dispatch(t)
    \/ \E t \in Handlers : LockAcquired(t)
    \/ \E t \in Handlers : MakedirsFails(t)
    \/ \E t \in Handlers : SpawnOk(t)
    \/ \E t \in Handlers, o \in {"cli_not_found", "error"} : SpawnFails(t, o)
    \/ \E t \in Handlers, stream \in {"stdout", "stderr"} : ProcessWrites(t, stream)
    \/ \E t \in Handlers, rc \in ReturnCodes : ProcessExits(t, rc)
    \/ \E t \in Handlers : CommunicateTimeout(t)
    \/ \E t \in Handlers : Killed(t)
    \/ \E t \in Handlers : Replied(t)
    \/ \E t \in Handlers : StreamText(t)
    \/ \E t \in Handlers, tool \in Tools : StreamToolUse(t, tool)
    \/ \E t \in Handlers : StreamEnds(t)
    \/ \E t \in Handlers : StreamRaises(t)
    \/ \E t \in Handlers : PromptSent(t)
    \/ \E t \in Handlers : PromptFails(t)
    \/ \E t \in Handlers : TimerFires(t)
    \/ \E t \in Handlers : TimerFiresAtHorizon(t)
    \/ \E t \in Handlers : WaitResumes(t)
    \/ \E i \in {"approve_", "deny_"}, s \in RequestIds : PermissionCallback(i, s)
    \/ Tick

\* What the code and its timeouts make happen: the event loop runs every
\* coroutine that is ready, the calls of the Telegram API and
\* create_subprocess_exec return or raise, the clock advances, the timers of
\* the two wait_for calls fire, process.wait() returns after kill().  The
\* messages of the streaming query come from the backend: nothing in the
\* code makes the next one arrive.
FairLive ==
    /\ WF_vars(Tick)
    /\ \A t \in Handlers :
          /\ WF_vars(Dispatch(t))
          /\ WF_vars(LockAcquired(t))
          /\ WF_vars(SpawnOk(t) \/ \E o \in {"cli_not_found", "error"} : SpawnFails(t, o))
          /\ WF_vars(CommunicateTimeout(t) \/ \E rc \in ReturnCodes : ProcessExits(t, rc))
          /\ WF_vars(Killed(t))
          /\ WF_vars(PromptSent(t) \/ PromptFails(t))
          /\ WF_vars(TimerFires(t) \/ TimerFiresAtHorizon(t))
          /\ WF_vars(WaitResumes(t))

SpecLive == Init /\ [][NextLive]_vars /\ FairLive

----------------------------------------------------------------------------
\* Properties

Range(f) == {f[x] : x \in DOMAIN f}

\* the invocation of a task is inside its streaming query
InQuery(t) == pc[t] \in {"streaming", "prompting", "waiting"}

\* C1: once an approve_request/deny_request call on a request has returned
\* True, every later approve/deny call on it returns False and the recorded
\* decision stays what the first call made it.
C1_ResolvedOnce ==
    \A o \in DOMAIN signal_log :
        /\ Len(signal_log[o]) <= 1
        /\ signal_log[o] # <<>> =>
              records[o].approved = (IF Head(signal_log[o]) = "approve_"
                                     THEN "True" ELSE "False")

\* C2: a wait that ends by its timeout returns False and removes the id from
\* the pending set; from then on the id is never pending again, and an
\* approve or deny call for it returns False and changes no request.
C2_ExpiredStaysExpired ==
    /\ \A t \in Tasks : approved[t].how = "timeout" => ~approved[t].ret
    /\ \A id \in expired :
          /\ id \notin DOMAIN pending_requests
          /\ approve_request(records, pending_requests, id) =
                 [ret |-> FALSE, records |-> records]
          /\ deny_request(records, pending_requests, id) =
                 [ret |-> FALSE, records |-> records]

\* C2 witness: a wait has timed out, its task got False, and the buttons of
\* the expired prompt are still there to be tapped.
C2_Witness ==
    \E t \in Tasks :
        /\ approved[t] = [ret |-> FALSE, how |-> "timeout"]
        /\ expired \cap rendered # {}

\* C3: with the subprocess backend at most one invocation is inside its
\* subprocess phase at any moment.
C3_SubprocessPhasesExclusive ==
    UsesCli(config) =>
        Cardinality({t \in Tasks : pc[t] \in SubprocessPhase}) <= 1

\* C3 witness: the subprocess of one conversation runs while an invocation
\* of another conversation waits for the lock.
C3_Witness ==
    \E t, u \in Tasks :
        /\ chat[t] # chat[u]
        /\ pc[t] = "communicating"
        /\ pc[u] = "lock_wait"

\* C4: in every history a user turn is immediately followed by the assistant
\* turn of the same invocation, and an assistant turn that is not the first
\* retained turn is immediately preceded by the user turn of its invocation.
C4_PairsContiguous ==
    \A c \in DOMAIN conversations :
        LET h == conversations[c] IN
        \A i \in 1..Len(h) :
            /\ h[i].role = "user" =>
                  /\ i < Len(h)
                  /\ h[i + 1].role = "assistant"
                  /\ h[i + 1].inv = h[i].inv
            /\ (h[i].role = "assistant" /\ i > 1) =>
                  /\ h[i - 1].role = "user"
                  /\ h[i - 1].inv = h[i].inv

\* C4 witness: two invocations of one conversation overlapped in time and
\* both have appended their pair.
C4_Witness ==
    \E t, u \in Tasks :
        /\ t # u /\ chat[t] = chat[u]
        /\ t \in began_with[u]
        /\ chat[t] \in DOMAIN conversations
        /\ Len(conversations[chat[t]]) = 4
        /\ {conversations[chat[t]][i].inv : i \in 1..4} = {t, u}

\* C5: every history holds at most max_history_length turns, and they are
\* the last min(n, max_history_length) turns appended since the last clear,
\* in the order they were appended.
C5_HistoryIsRecentSuffix ==
    \A c \in Chats :
        LET h == IF c \in DOMAIN conversations THEN conversations[c] ELSE <<>>
            log == appended[c]
            max == config.max_history_length
        IN  /\ Len(h) <= max
            /\ Len(h) = (IF Len(log) <= max THEN Len(log) ELSE max)
            /\ \A i \in 1..Len(h) : h[i] = log[Len(log) - Len(h) + i]

\* C5 witness: more turns were appended than are kept.
C5_Witness ==
    \E c \in DOMAIN conversations :
        /\ Len(appended[c]) > config.max_history_length
        /\ Len(conversations[c]) = config.max_history_length
        /\ config.max_history_length >= 2

\* C6: when an approve_request call on the request a task waits for has
\* returned True, the wait of that task returns True, by the event and not
\* by the timeout.
C6_ApproveWakesWaiter ==
    [][\A t \in Tasks :
          (/\ pc[t] = "waiting"
           /\ pc'[t] # "waiting"
           /\ "approve_" \in Range(signal_log[waiting_on[t]]))
          => approved'[t] = [ret |-> TRUE, how |-> "event"]]_vars

\* C7: with the streaming backend at most one invocation per conversation
\* is inside its query at any time.
C7_OneQueryPerConversation ==
    ~UsesCli(config) =>
        \A t, u \in Tasks :
            (t # u /\ InQuery(t) /\ InQuery(u)) => chat[t] # chat[u]

C9_CreateNeverOverwrites ==
    [][\A id \in DOMAIN pending_requests :
          id \in DOMAIN pending_requests' =>
              pending_requests'[id] = pending_requests[id]]_vars

\* C10: every request in the pending set is undecided.
C10_PendingUndecided ==
    \A id \in DOMAIN pending_requests :
        records[pending_requests[id]].approved = None

\* C11: approve_request, deny_request and wait_for_approval called with an
\* id that is not in the pending set return False and leave the pending set
\* and every request unchanged.
C11_UnknownIdNotFound ==
    [][/\ \A id \in RequestIds \ DOMAIN pending_requests :
              /\ approve_request(records, pending_requests, id) =
                     [ret |-> FALSE, records |-> records]
              /\ deny_request(records, pending_requests, id) =
                     [ret |-> FALSE, records |-> records]
       /\ \A t \in Tasks :
              \* the prompt was sent (the invocation went on to its result)
              \* and wait_for_approval was entered with an id that is gone
              (/\ pc[t] = "prompting" /\ pc'[t] # "prompting"
               /\ request_id[t] \notin DOMAIN pending_requests
               /\ conversations' # conversations)
              => /\ approved'[t] = [ret |-> FALSE, how |-> "not_found"]
                 /\ pending_requests' = pending_requests
                 /\ records' = records]_vars

\* C11 witness: a wait found its id gone, and the buttons of a prompt whose
\* id is not pending are still there to be tapped.
C11_Witness ==
    /\ \E t \in Tasks : approved[t].how = "not_found"
    /\ rendered \ DOMAIN pending_requests # {}

\* the step of task t in which its wait_for_approval call returns
WaitReturns(t) ==
    \/ pc[t] = "waiting" /\ pc'[t] # "waiting"
    \/ /\ pc[t] = "prompting" /\ pc'[t] = "replying"
       /\ conversations' # conversations

\* C12: in interactive mode, when the wait for a tool-use event returns
\* True the query goes on consuming the stream with its text unchanged;
\* when it returns False (denial, timeout or id gone) the denial notice is
\* appended, the text is handed to the handler as the result (recorded as
\* the assistant turn), and no later stream message is processed.
C12_StopIffNotApproved ==
    [][\A t \in Tasks :
          /\ WaitReturns(t) =>
                IF approved'[t].ret
                THEN /\ pc'[t] = "streaming"
                     /\ assistant_message'[t] = assistant_message[t]
                     /\ conversations' = conversations
                ELSE LET text == Strip(assistant_message[t] \o
                                       DenialNotice(ToolOf(request_id[t])))
                         h == conversations'[chat[t]]
                     IN  /\ pc'[t] = "replying"
                         /\ assistant_message'[t] = text
                         /\ h[Len(h)] = Turn("assistant", text, t)
          /\ nevents'[t] > nevents[t] => pc[t] = "streaming"
          /\ pc[t] = "replying" => pc'[t] \in {"replying", "done"}]_vars

\* C12 witness: one query has processed a later message after an approval
\* while another has ended with the denial notice after its wait timed out.
C12_Witness ==
    \E t, u \in Tasks :
        /\ approved[t] = [ret |-> TRUE, how |-> "event"]
        /\ pc[t] = "streaming" /\ nevents[t] = 2
        /\ assistant_message[t] = <<"text">>
        /\ approved[u] = [ret |-> FALSE, how |-> "timeout"]
        /\ pc[u] = "replying"
        /\ assistant_message[u] = <<"text", "\n\n", "denied", "Bash">>

\* assistant texts recorded in the histories
Recorded ==
    UNION {{conversations[c][i].content : i \in 1..Len(conversations[c])} :
              c \in DOMAIN conversations}

\* C13: in every state where no invocation is inside its subprocess phase
\* the global lock is free.
C13_LockFreeWhenIdle ==
    (\A t \in Tasks : pc[t] \notin SubprocessPhase) => ~lock_locked

\* C13 witness: invocations have ended by timeout, by a missing executable
\* and by a non-zero exit, none is running, and the lock is free.
C13_Witness ==
    /\ UsesCli(config)
    /\ \A t \in Tasks : pc[t] \in {"replying", "done"}
    /\ ~lock_locked
    /\ {CliResult("timeout"), CliResult("cli_not_found")} \subseteq Recorded
    /\ \E r \in Recorded : Head(r) = "cli_error"

\* C14: a subprocess lives only inside send_prompt; when communicate() has
\* timed out the process is killed and waited for, send_prompt then returns
\* the timeout message, and nothing the process wrote is part of it.
C14_TimeoutKillsAndDiscards ==
    [][\A t \in Tasks :
          /\ process'[t].state # "none" => pc'[t] \in {"communicating", "killing"}
          /\ (pc[t] = "communicating" /\ pc'[t] = "killing") =>
                 process'[t].state = "killing"
          /\ (pc[t] = "killing" /\ pc'[t] # "killing") =>
                 /\ process[t].state = "killing"
                 /\ process'[t].state = "none"
                 /\ pc'[t] = "replying"
                 /\ assistant_message'[t] = CliResult("timeout")
                 /\ Range(assistant_message'[t]) \cap
                        (Range(process[t].stdout) \cup Range(process[t].stderr)) = {}]_vars

\* C14 witness: the process that is being killed has written output.
C14_Witness ==
    \E t \in Tasks :
        /\ pc[t] = "killing"
        /\ process[t].state = "killing"
        /\ process[t].stdout # <<>>

\* C15: send_prompt always returns to its caller, which records the result
\* as the assistant turn: after a failed spawn the result is the not-found
\* message (or the text of the other exception), after the exit of the
\* process it is the output, the no-response message, or the failure text
\* carrying the captured error stream.
C15_BackendFailureIsResult ==
    [][\A t \in Tasks :
          (pc[t] \in SubprocessPhase /\ pc'[t] \notin SubprocessPhase) =>
             LET h == conversations'[chat[t]]
                 p == process[t]
             IN  /\ pc'[t] = "replying"
                 /\ h[Len(h)] = Turn("assistant", assistant_message'[t], t)
                 /\ pc[t] = "spawning" =>
                        assistant_message'[t] \in
                            {CliResult("cli_not_found"), CliResult("error")}
                 /\ pc[t] = "communicating" =>
                        assistant_message'[t] \in
                            {IF Strip(p.stdout) # <<>> THEN Strip(p.stdout)
                             ELSE CliResult("no_response"),
                             CliResult("cli_error") \o Strip(p.stderr)}]_vars

\* C15 witness: one invocation has returned the failure text with the error
\* stream and another the not-found message; both handlers go on to reply.
C15_Witness ==
    \E t, u \in Tasks :
        /\ pc[t] = "replying"
        /\ assistant_message[t] = <<"cli_error", "stderr">>
        /\ pc[u] = "replying"
        /\ assistant_message[u] = CliResult("cli_not_found")

\* C16: with the subprocess backend, after /clear (clear_all) for a
\* conversation and until its next invocation, its history is empty and it
\* has no session directory: neither the session store nor the subprocess
\* backend maps it to one.
\* (Stated for conversations none of whose invocations is in flight.)
C16_ClearReleasesHandle ==
    \A c \in cleared :
        (\A t \in Tasks : InFlight(t) => chat[t] # c) =>
            /\ get_history(conversations, c)[c] = <<>>
            /\ c \notin DOMAIN claude_session_dirs
            /\ c \notin DOMAIN session_dirs

\* C17: distinct conversations have distinct session directories, and a
\* subprocess runs in the directory of the conversation of its invocation
\* and of no other conversation.
C17_SessionDirIsOwn ==
    /\ \A c, d \in DOMAIN session_dirs :
           c # d => session_dirs[c] # session_dirs[d]
    /\ \A t \in Tasks :
           process[t].state # "none" =>
              /\ chat[t] \in DOMAIN session_dirs
              /\ process[t].cwd = session_dirs[chat[t]]
              /\ \A c \in DOMAIN session_dirs :
                     process[t].cwd = session_dirs[c] => c = chat[t]

\* C17 witness: a subprocess of the second conversation runs after the
\* first conversation got its directory.
C17_Witness ==
    \E t \in Tasks :
        /\ process[t].state = "running"
        /\ chat[t] = 2
        /\ DOMAIN session_dirs = {1, 2}

\* the step in which the send_prompt call of task t gets the lock: it goes
\* on to start the executable, or fails before that and has its result
Acquires(t) ==
    \/ pc[t] # "spawning" /\ pc'[t] = "spawning"
    \/ pc[t] \in {"typing", "lock_wait"} /\ pc'[t] = "replying"

\* C18: the global lock is acquired in the order in which the invocations
\* started waiting for it, and under fair scheduling every invocation that
\* waits for the lock eventually holds it.
C18_LockFifoAndStarvationFree ==
    /\ [][\A t \in Tasks :
             Acquires(t)
             => /\ lock_waiters = <<>> \/ Head(lock_waiters) = t
                /\ \A u \in Range(lock_waiters) \ {t} :
                       /\ u \in Range(lock_waiters')
                       /\ pc'[u] = "lock_wait"]_vars
    /\ [][Len(lock_waiters') >= Len(lock_waiters) =>
             SubSeq(lock_waiters', 1, Len(lock_waiters)) = lock_waiters]_vars
    /\ \A t \in Tasks : (pc[t] = "lock_wait") ~> (pc[t] # "lock_wait")

\* C18 witness: two invocations queue for the lock behind a third one.
C18_Witness ==
    /\ Len(lock_waiters) = 2
    /\ lock_locked

\* the texts the chunks give when they are concatenated with a line break,
\* or with nothing, between consecutive chunks
RECURSIVE Joins(_)
Joins(chs) ==
    IF chs = <<>> THEN {<<>>}
    ELSE IF Len(chs) = 1 THEN {chs[1]}
    ELSE {chs[1] \o sep \o r : sep \in {<<>>, <<"\n">>}, r \in Joins(Tail(chs))}

\* C19: the chunks split_message returns are each at most max_length long
\* and give back the text when they are concatenated with the line breaks
\* restored; a text no longer than max_length comes back as one chunk, a
\* longer one as more than one.
C19_SplitReproduces ==
    chunks # <<>> =>
        /\ \A i \in 1..Len(chunks) : Len(chunks[i]) <= max_length
        /\ split_text \in Joins(chunks)
        /\ Len(split_text) <= max_length => chunks = <<split_text>>
        /\ Len(split_text) > max_length => Len(chunks) > 1

\* what the claim has a renderer with display cap `cap` show for `input`
Shown(input, shown, cap) ==
    IF Len(input) > cap
    THEN /\ shown = SubSeq(input, 1, cap) \o Marker
         /\ Len(shown) <= cap + 3
    ELSE shown = input

\* C20: a rendered prompt shows a tool input longer than the display cap as
\* its first cap characters followed by the marker, at most cap + 3
\* characters in all, and a tool input no longer than the cap unchanged.
C20_TruncatedDisplay ==
    /\ display_input # Unset => Shown(tool_input, display_input, DisplayCap)
    /\ input_preview # Unset => Shown(tool_input, input_preview, PreviewCap)

\* C21: a get_request call, for a pending id or any other, leaves the
\* pending set and every request as they are, and returns the request
\* stored under the id exactly when the id is pending.
C21_LookupReadOnly ==
    \A id \in RequestIds :
        LET g == GetRequest(records, pending_requests, id) IN
        /\ g.pending = pending_requests
        /\ g.records = records
        /\ id \in DOMAIN pending_requests => g.ret = pending_requests[id]
        /\ id \notin DOMAIN pending_requests => g.ret = NoRequest

\* C21 witness: the handler of the buttons has looked up and decided a
\* pending request, while the buttons of a request that is not pending any
\* more are still shown.
C21_Witness ==
    /\ \E id \in DOMAIN pending_requests :
           /\ id \in rendered
           /\ signal_log[pending_requests[id]] # <<>>
    /\ rendered \ DOMAIN pending_requests # {}

\* C22: get_history gives every key a history: a key seen for the first
\* time gets an empty one, a known key keeps its turns as they are, in the
\* order they were appended (all of them while no more than
\* max_history_length were appended since the last clear), and no other
\* history changes.
C22_GetHistoryTotal ==
    \A c \in Chats :
        LET after == get_history(conversations, c) IN
        /\ DOMAIN after = DOMAIN conversations \cup {c}
        /\ c \notin DOMAIN conversations => after[c] = <<>>
        /\ \A d \in DOMAIN conversations : after[d] = conversations[d]
        /\ Len(appended[c]) <= config.max_history_length => after[c] = appended[c]

\* C22 witness: one conversation holds exactly the one turn added to it and
\* another has an empty history.
C22_Witness ==
    \E c, d \in DOMAIN conversations :
        /\ Len(appended[c]) = 1
        /\ conversations[c] = appended[c]
        /\ d # c
        /\ conversations[d] = <<>>

\* the history of chat c holds the user/assistant pair of task t
HasPair(c, t) ==
    /\ c \in DOMAIN conversations
    /\ \E i \in 1..Len(conversations[c]) - 1 :
           /\ conversations[c][i] = Turn("user", Prompt(t), t)
           /\ conversations[c][i + 1].role = "assistant"
           /\ conversations[c][i + 1].inv = t

\* the send_prompt call of task t has returned
Returned(t) == pc[t] \in {"replying", "done"}

\* C23: with the subprocess backend, the step in which the send_prompt call
\* of an invocation returns also appends its pair at the end of the history
\* of its conversation, and no invocation enters its subprocess phase while
\* another one is inside its own: the pair of an invocation is in the
\* history before the subprocess of a later one is started.
C23_PairBeforeNextSubprocess ==
    [][UsesCli(config) =>
          \A t \in Tasks :
              /\ (/\ pc[t] \in {"typing", "lock_wait"} \cup SubprocessPhase
                  /\ pc'[t] = "replying")
                 => LET g == conversations'[chat[t]]
                    IN  /\ Len(g) >= 2
                        /\ g[Len(g) - 1] = Turn("user", Prompt(t), t)
                        /\ g[Len(g)].role = "assistant" /\ g[Len(g)].inv = t
                        /\ \A u \in Tasks \ {t} : pc'[u] \notin SubprocessPhase
              /\ (pc[t] \notin SubprocessPhase /\ pc'[t] \in SubprocessPhase)
                 => \A u \in Tasks \ {t} : pc[u] \notin SubprocessPhase]_vars

\* C23 witness: an invocation of a conversation queued for the lock while
\* an earlier one of the same conversation held it, and now runs its
\* subprocess after the earlier one has returned.
C23_Witness ==
    \E t, u \in Tasks :
        /\ t # u /\ chat[t] = chat[u]
        /\ t \in began_with[u]
        /\ pc[u] = "communicating"
        /\ Returned(t)
        /\ HasPair(chat[t], t)

\* position of the user turn of task t in sequence h, 0 if it is not there
PairAt(h, t) ==
    LET I == {i \in 1..Len(h) : h[i].role = "user" /\ h[i].inv = t}
    IN  IF I = {} THEN 0 ELSE CHOOSE i \in I : \A j \in I : i <= j

\* the agent run of task t finishes with a result in this step
RunFinishes(t) ==
    /\ pc[t] \notin {"idle", "replying", "done"}
    /\ pc'[t] = "replying"
    /\ conversations' # conversations

\* C24: when the agent run of an invocation finishes, its pair is put
\* behind all turns that are in the history of its conversation, which keep
\* their order; so the pairs in a history are in the order in which the
\* runs of their invocations have finished.
C24_AppendedInCompletionOrder ==
    [][/\ \A t \in Tasks :
             RunFinishes(t) =>
                LET c == chat[t]
                    h == IF c \in DOMAIN conversations THEN conversations[c] ELSE <<>>
                    g == conversations'[c]
                IN  /\ Len(g) >= 2
                    /\ PairAt(g, t) = Len(g) - 1
                    /\ g[Len(g)] = Turn("assistant", assistant_message'[t], t)
                    /\ \E k \in 1..Len(h) + 1 :
                           SubSeq(g, 1, Len(g) - 2) = SubSeq(h, k, Len(h))
       /\ \A c \in DOMAIN conversations' :
             \A t, u \in Tasks :
                (PairAt(conversations'[c], t) > 0 /\ PairAt(conversations'[c], u) > 0)
                => (PairAt(conversations'[c], t) < PairAt(conversations'[c], u)
                    <=> PairAt(appended'[c], t) < PairAt(appended'[c], u))]_vars

\* C24 witness: an invocation that began while another one of its
\* conversation was in flight finished first, and its pair comes first.
C24_Witness ==
    \E t, u \in Tasks :
        /\ t # u /\ chat[t] = chat[u]
        /\ t \in began_with[u]
        /\ chat[t] \in DOMAIN conversations
        /\ PairAt(conversations[chat[t]], u) = 1
        /\ PairAt(conversations[chat[t]], t) = 3

\* C25: every invocation that is running or waiting for approval
\* eventually reaches a terminal outcome.
C25_InvocationTerminates ==
    \A t \in Handlers :
        (pc[t] \notin {"idle", "replying", "reporting", "done"})
            ~> (pc[t] \in {"replying", "reporting", "done"})

\* the PermissionRequest object the query function of task u created last
RequestOf(u) == <<u, nevents[u]>>

\* task u has a request of its own in the pending set
HasPending(u) ==
    /\ pc[u] \in {"prompting", "waiting"}
    /\ request_id[u] \in DOMAIN pending_requests
    /\ pending_requests[request_id[u]] = RequestOf(u)

\* the step in which the request of task t is over: its wait ends by a
\* signal, by the timeout or because the id is gone, and it is cleaned up
RequestEnds(t) ==
    /\ pc[t] \in {"prompting", "waiting"}
    /\ pc'[t] \notin {"prompting", "waiting"}

\* C26: when the request of one invocation is approved, denied, expired or
\* cleaned up, the pending request of every other invocation stays in the
\* pending set as it was, and that invocation stays where it is.
C26_NoCrossInvocationCancellation ==
    [][\A t \in Handlers : \A u \in Handlers \ {t} :
          (RequestEnds(t) /\ HasPending(u))
          => /\ request_id[u] \in DOMAIN pending_requests'
             /\ pending_requests'[request_id[u]] = RequestOf(u)
             /\ records'[RequestOf(u)] = records[RequestOf(u)]
             /\ pc'[u] = pc[u] /\ request_id'[u] = request_id[u]]_vars

\* C27: an invocation on the subprocess backend, or under the bypass
\* policy, creates no approval request and never suspends on the approval
\* wait: under such a configuration the pending set stays empty, no prompt
\* is rendered and no handler is sending a prompt or waiting.
C27_RequestsOnlyWhenInteractive ==
    (config.use_cli \/ config.permission_mode = "bypass")
    => /\ pending_requests = <<>>
       /\ DOMAIN records = {}
       /\ rendered = {}
       /\ \A t \in Tasks :
              /\ pc[t] \notin {"prompting", "waiting"}
              /\ request_id[t] = <<>>
              /\ waiting_on[t] = NoRequest

\* C27 witness: under the bypass policy the streaming query has passed a
\* tool_use message (a message that added no text) and goes on.
C27_Witness ==
    /\ ~config.use_cli /\ config.permission_mode = "bypass"
    /\ \E t \in Tasks :
          /\ pc[t] = "streaming"
          /\ nevents[t] > Len(assistant_message[t])
    /\ pending_requests = <<>>

\* C28: the resolve handle_permission_callback calls for a tapped button
\* carries the request id the prompt was rendered for and the intent of the
\* button, whatever the tool name is.
C28_CallbackRoundTrip ==
    resolved # NoResolve
    => /\ resolved.request_id = shown_id
       /\ resolved.intent = Head(callback_data)

\* task t is inside its backend call (send_prompt or one of the two query
\* functions)
InBackend(t) ==
    pc[t] \in {"lock_wait", "spawning", "communicating", "killing",
               "streaming", "prompting", "waiting"}

\* C29: every backend call ends inside the handler, which then replies with
\* the result or with the text of the error (no error leaves the handler);
\* the handler that replies holds neither the lock nor a wait, the turns an
\* error leaves in the store are the turns that were there, and the handler
\* ends.
C29_BackendErrorsCaught ==
    [][\A t \in Handlers :
          /\ (InBackend(t) /\ pc'[t] # pc[t])
             => \/ InBackend(t)'
                \/ pc'[t] = "replying"
                \/ /\ pc'[t] = "reporting"
                   /\ conversations' = conversations
                   /\ \A u \in Handlers \ {t} : pc'[u] = pc[u]
                   /\ lock_locked' = lock_locked /\ lock_waiters' = lock_waiters
          /\ pc[t] = "reporting"
             => /\ pc'[t] \in {"reporting", "done"}
                /\ waiting_on[t] = NoRequest
                /\ \A i \in 1..Len(lock_waiters) : lock_waiters[i] # t]_vars

\* C29 witness: the first handler is reporting the error its streaming
\* query raised, and the handler of a later message of the same
\* conversation has got its answer and appended its pair.
C29_Witness ==
    \E t, u \in Handlers :
        /\ t < u /\ chat[t] = chat[u]
        /\ pc[t] = "reporting"
        /\ pc[u] = "replying"
        /\ HasPair(chat[u], u)
        /\ ~HasPair(chat[t], t)

\* C30: when the directory of a conversation cannot be created the
\* invocation still starts the executable (send_prompt, once it has the lock,
\* goes on to create_subprocess_exec), and clear_chat_session takes the
\* directory out of the tracking dict whether or not it could be removed.
C30_DirFailureDegrades ==
    [][/\ \A t \in Handlers :
             (UsesCli(config) /\ pc[t] \in {"typing", "lock_wait"} /\ pc'[t] # pc[t])
             => pc'[t] \in {"lock_wait", "spawning"}
       /\ \A c \in DOMAIN session_dirs : \A removed \in BOOLEAN :
             c \notin DOMAIN clear_chat_session(session_dirs, c, removed)]_vars

\* the history of chat c in store convs, empty if the key is not there
HistoryOf(convs, c) == IF c \in DOMAIN convs THEN convs[c] ELSE <<>>

\* C31: an add_message call on a conversation puts one turn at the end of
\* its history and may drop turns from the front: the turns that stay are
\* the turns that were there, in their order; the histories of the other
\* conversations and the directories of all conversations stay as they are.
C31_AddMessageFrame ==
    [][\A c \in Chats :
          Len(appended'[c]) = Len(appended[c]) + 1
          => LET old == HistoryOf(conversations, c)
                 new == HistoryOf(conversations', c)
                 turn == appended'[c][Len(appended'[c])]
             IN  /\ new # <<>>
                 /\ new[Len(new)] = turn
                 /\ \E k \in 0..Len(old) :
                        SubSeq(new, 1, Len(new) - 1) = SubSeq(old, k + 1, Len(old))
                 /\ \A d \in Chats \ {c} :
                        /\ d \in DOMAIN conversations' <=> d \in DOMAIN conversations
                        /\ HistoryOf(conversations', d) = HistoryOf(conversations, d)
                 /\ claude_session_dirs' = claude_session_dirs
                 /\ session_dirs' = session_dirs]_vars

\* C31 witness: add_message has dropped turns from the front of one history
\* while another conversation has turns of its own.
C31_Witness ==
    \E c, d \in Chats :
        /\ c # d
        /\ c \in DOMAIN conversations /\ d \in DOMAIN conversations
        /\ conversations[c] # <<>>
        /\ Len(appended[c]) > Len(conversations[c])
        /\ conversations[d] # <<>>

\* C32: clear_history on a conversation, seen before or not, leaves its
\* history empty (get_history then returns the empty list) and the
\* histories of the other conversations as they are; a step that clears a
\* history changes no directory of any conversation.
C32_ClearHistoryFrame ==
    [][/\ \A c \in Chats :
             LET after == clear_history(conversations, c) IN
             /\ get_history(after, c)[c] = <<>>
             /\ \A d \in Chats \ {c} :
                    HistoryOf(after, d) = HistoryOf(conversations, d)
       /\ \A c \in Chats :
             (appended[c] # <<>> /\ appended'[c] = <<>>)
             => /\ HistoryOf(conversations', c) = <<>>
                /\ \A d \in Chats \ {c} :
                       HistoryOf(conversations', d) = HistoryOf(conversations, d)
                /\ claude_session_dirs' = claude_session_dirs
                /\ session_dirs' = session_dirs]_vars

\* C32 witness: the history of a conversation has been cleared and is
\* empty, while another conversation has its turns, and both have their
\* directories.
C32_Witness ==
    \E c, d \in Chats :
        /\ c # d
        /\ c \in cleared
        /\ HistoryOf(conversations, c) = <<>>
        /\ HistoryOf(conversations, d) # <<>>
        /\ {c, d} \subseteq DOMAIN session_dirs

\* C33: the wait of a task returns True exactly if the first approve or
\* deny call that returned True for the request it waits on was an approve.
C33_SignalAndWaiterAgree ==
    [][\A t \in Handlers :
          (pc[t] = "waiting" /\ pc'[t] # "waiting")
          => LET log == signal_log[waiting_on[t]] IN
             approved'[t].ret <=> (log # <<>> /\ Head(log) = "approve_")]_vars

\* the turns of sequence h come as pairs: a user turn and, right after it,
\* the assistant turn of the same invocation; front tells whether a lone
\* assistant turn may stand at the front (its user turn was trimmed away)
InPairs(h, front) ==
    \A i \in 1..Len(h) :
        /\ h[i].role = "user" =>
              /\ i < Len(h)
              /\ h[i + 1].role = "assistant"
              /\ h[i + 1].inv = h[i].inv
        /\ (h[i].role = "assistant" /\ (i > 1 \/ ~front)) =>
              /\ i > 1
              /\ h[i - 1].role = "user"
              /\ h[i - 1].inv = h[i].inv

\* C34: an invocation appends its user turn and its assistant turn in one
\* step or appends nothing: after every step the turns appended to a
\* conversation come as pairs and so do the turns of its history (up to a
\* pair cut by trimming at the front), a step appends to at most one
\* conversation and then exactly the pair of one invocation, and the step
\* in which the backend call of an invocation raises appends nothing.
C34_PairAppendedAtomically ==
    [][/\ \A c \in Chats :
             /\ InPairs(appended'[c], FALSE)
             /\ InPairs(HistoryOf(conversations', c), TRUE)
             /\ Len(appended'[c]) > Len(appended[c])
                => /\ Len(appended'[c]) = Len(appended[c]) + 2
                   /\ SubSeq(appended'[c], 1, Len(appended[c])) = appended[c]
                   /\ \A d \in Chats \ {c} : Len(appended'[d]) <= Len(appended[d])
       /\ \A t \in Handlers :
             (pc[t] # "reporting" /\ pc'[t] = "reporting")
             => /\ appended' = appended
                /\ conversations' = conversations]_vars

\* C34 witness: the streaming query of an invocation raised after it had
\* yielded messages; none of its turns was appended, while the pair of
\* another invocation of the conversation is in the history.
C34_Witness ==
    \E t, u \in Handlers :
        /\ t # u /\ chat[t] = chat[u]
        /\ pc[t] = "reporting" /\ nevents[t] > 0
        /\ \A i \in 1..Len(appended[chat[t]]) : appended[chat[t]][i].inv # t
        /\ HasPair(chat[u], u)

\* C35: whenever no invocation is in flight the pending set is empty.
C35_NoRequestOutlivesInvocation ==
    (\A t \in Tasks : ~InFlight(t)) => pending_requests = <<>>

\* C36: with an even max_history_length every history has even length and
\* alternates user, assistant, beginning with a user turn.
C36_EvenCapAlternates ==
    config.max_history_length % 2 = 0 =>
        \A c \in DOMAIN conversations :
            LET h == conversations[c] IN
            /\ Len(h) % 2 = 0
            /\ \A i \in 1..Len(h) :
                   h[i].role = (IF i % 2 = 1 THEN "user" ELSE "assistant")

\* C36 witness: under an even cap a history has been trimmed to the cap.
C36_Witness ==
    /\ config.max_history_length % 2 = 0
    /\ \E c \in DOMAIN conversations :
          /\ Len(conversations[c]) = config.max_history_length
          /\ Len(appended[c]) > Len(conversations[c])

\* C37: when the history of a conversation was cleared while an invocation
\* for it was under way (its message had arrived, its backend call had not
\* returned), the history holds no turn of that invocation once it has
\* completed.
C37_ClearNotUndone ==
    \A t \in stale :
        pc[t] = "replying"
        => \A i \in 1..Len(HistoryOf(conversations, chat[t])) :
               conversations[chat[t]][i].inv # t

====
